---- MODULE Spec2Model ----
(***************************************************************************)
(* A model of the ECDSA signature codec and verification engine of         *)
(* src/src/ec.rs, of the QUIC header-protection key of                     *)
(* src/aws-lc-rust/src/aead/quic.rs and of the zeroizing AES key           *)
(* containers of src/src/aead/aes.rs.                                      *)
(*                                                                         *)
(* Byte strings are sequences over 0..255.  A BIGNUM is modelled by its    *)
(* value, written as the minimal big-endian byte string of that value      *)
(* (the empty string is zero), together with a null flag for the pointer.  *)
(* Results are records whose field kind is "Ok", "Err" or "Panic".         *)
(***************************************************************************)
EXTENDS Integers, Sequences, FiniteSets, TLC

VARIABLES call, hpk, store, threads

vars == <<call, hpk, store, threads>>

----------------------------------------------------------------------------
(* Bounds of the model.                                                    *)

\* lengths 0..MaxSmallLen of a bignum's encoding are all enumerated
MaxSmallLen == 2
\* encodings of up to MAX_ECDSA_FIXED_NUMBER_BYTE_SIZE + MaxOverLen bytes
MaxOverLen == 1
\* a signature is tried with each one of its first MaxFlip bytes flipped
MaxFlip == 6
\* the threads that call new_mask on the shared key
NumThreads == 2

----------------------------------------------------------------------------
(* Byte strings.                                                           *)

Byte == 0..255

Zeros(n) == [i \in 1..n |-> 0]

\* the index of the first non-zero byte of b, or Len(b) + 1
RECURSIVE FirstNonZero(_, _)
FirstNonZero(b, i) ==
    IF i > Len(b) THEN i
    ELSE IF b[i] # 0 THEN i
    ELSE FirstNonZero(b, i + 1)

\* the value of a big-endian byte string: its bytes without the leading zeros
StripLeadingZeros(b) == SubSeq(b, FirstNonZero(b, 1), Len(b))

RECURSIVE SumBytes(_)
SumBytes(b) == IF b = <<>> THEN 0 ELSE b[1] + SumBytes(Tail(b))

\* dst[start+1 .. start+Len(src)] := src   (slice[start..end].copy_from_slice(src))
CopyInto(dst, start, src) ==
    [i \in 1..Len(dst) |->
        IF i > start /\ i <= start + Len(src) THEN src[i - start] ELSE dst[i]]

----------------------------------------------------------------------------
(* Errors.                                                                 *)

Unspecified == "Unspecified"

NoError == "-"

----------------------------------------------------------------------------
(* BIGNUM (aws-lc-sys) as used by ec.rs.                                   *)

BN(v) == [null |-> FALSE, v |-> v]

NullBN == [null |-> TRUE, v |-> <<>>]

\* BN_num_bytes: the length of the minimal big-endian encoding
BN_num_bytes(bn) == Len(bn.v)

\* BN_bn2bin: writes the minimal encoding at the start of the buffer and
\* returns its length
BN_bn2bin(bn, buffer) == [n |-> Len(bn.v), buffer |-> CopyInto(buffer, 0, bn.v)]

\* BN_bin2bn: the bignum whose value the big-endian bytes denote; NULL when
\* the allocation fails
BN_bin2bn(bytes, alloc_ok) == IF alloc_ok THEN BN(StripLeadingZeros(bytes)) ELSE NullBN

MAX_ECDSA_FIXED_NUMBER_BYTE_SIZE == 48

P256 == "ECDSA_P256"

P384 == "ECDSA_P384"

AlgorithmID == {P256, P384}

ecdsa_fixed_number_byte_size(alg_id) == IF alg_id = P256 THEN 32 ELSE 48

BIGNUM_to_be_bytes(bignum, bytes) ==
    LET bn_bytes == BN_num_bytes(bignum) IN
    IF bn_bytes > Len(bytes)
    THEN [kind |-> "Err", err |-> Unspecified, n |-> 0, buffer |-> bytes]
    ELSE LET w == BN_bn2bin(bignum, bytes) IN
         IF w.n = 0
         THEN [kind |-> "Err", err |-> Unspecified, n |-> 0, buffer |-> w.buffer]
         ELSE [kind |-> "Ok", err |-> NoError, n |-> w.n, buffer |-> w.buffer]

\* a usize subtraction: it panics in a build with overflow checks and wraps
\* in a build without them; a wrapped result stands for 2^64 + v (v < 0)
usize_sub(a, b, overflow_checks) ==
    IF a >= b THEN [panic |-> FALSE, wrapped |-> FALSE, v |-> a - b]
    ELSE IF overflow_checks THEN [panic |-> TRUE, wrapped |-> FALSE, v |-> 0]
    ELSE [panic |-> FALSE, wrapped |-> TRUE, v |-> a - b]

\* slice[start..end] of a slice of len bytes is in range
SliceRangeOk(start, end, len) == ~start.wrapped /\ start.v <= end /\ end <= len

\* the capacity of the buffer of a Signature
SignatureCapacity == 2 * MAX_ECDSA_FIXED_NUMBER_BYTE_SIZE

\* Signature::new(fill): the closure is run on the zeroed buffer and returns
\* the length; filled is the closure's outcome [panic, why, value, len]
Signature_new(filled) ==
    IF filled.panic
    THEN [kind |-> "Panic", err |-> NoError, bytes |-> <<>>, why |-> filled.why]
    ELSE [kind |-> "Ok", err |-> NoError,
          bytes |-> SubSeq(filled.value, 1, filled.len), why |-> "-"]

ToFixedErr == [kind |-> "Err", err |-> Unspecified, bytes |-> <<>>, why |-> "-"]

\* the closure of ECDSA_SIG_to_fixed, run on slice
ToFixedFill(expected_number_size, r_buffer, r_bytes, s_buffer, s_bytes, overflow_checks, slice) ==
    LET r_start == usize_sub(expected_number_size, r_bytes, overflow_checks)
        r_end   == expected_number_size
        s_start == usize_sub(2 * expected_number_size, s_bytes, overflow_checks)
        s_end   == 2 * expected_number_size
        Panic(why) == [panic |-> TRUE, why |-> why, value |-> slice, len |-> 0]
    IN  IF r_start.panic \/ s_start.panic THEN Panic("subtract with overflow")
        ELSE IF ~SliceRangeOk(r_start, r_end, Len(slice)) THEN Panic("slice index")
        ELSE IF r_end - r_start.v # r_bytes THEN Panic("copy_from_slice length")
        ELSE IF ~SliceRangeOk(s_start, s_end, Len(slice)) THEN Panic("slice index")
        ELSE IF s_end - s_start.v # s_bytes THEN Panic("copy_from_slice length")
        ELSE [panic |-> FALSE, why |-> "-",
              value |-> CopyInto(CopyInto(slice, r_start.v, SubSeq(r_buffer, 1, r_bytes)),
                                 s_start.v, SubSeq(s_buffer, 1, s_bytes)),
              len |-> 2 * expected_number_size]

\* sig is the ECDSA_SIG object [r, s]
ECDSA_SIG_to_fixed(alg_id, sig, overflow_checks) ==
    LET expected_number_size == ecdsa_fixed_number_byte_size(alg_id)
        r == BIGNUM_to_be_bytes(sig.r, Zeros(MAX_ECDSA_FIXED_NUMBER_BYTE_SIZE))
        s == BIGNUM_to_be_bytes(sig.s, Zeros(MAX_ECDSA_FIXED_NUMBER_BYTE_SIZE))
    IN  IF sig.r.null THEN ToFixedErr
        ELSE IF r.kind = "Err" THEN ToFixedErr
        ELSE IF sig.s.null THEN ToFixedErr
        ELSE IF s.kind = "Err" THEN ToFixedErr
        ELSE Signature_new(ToFixedFill(expected_number_size, r.buffer, r.n,
                                       s.buffer, s.n, overflow_checks,
                                       Zeros(SignatureCapacity)))

\* BIGNUM_from_be_bytes: DetachableLcPtr::new rejects a null pointer
BIGNUM_from_be_bytes(bytes, alloc_ok) ==
    LET p == BN_bin2bn(bytes, alloc_ok) IN
    IF p.null THEN [kind |-> "Err", err |-> Unspecified, bn |-> p]
    ELSE [kind |-> "Ok", err |-> NoError, bn |-> p]

NoSig == [r |-> NullBN, s |-> NullBN]

\* ptr::DetachableLcPtr: the wrapper of a pointer it owns until detach
DetachableLcPtr_new(name) == [name |-> name, owns |-> TRUE]

\* DetachableLcPtr::detach: the wrapper gives the pointer up
DetachableLcPtr_detach(ptr) == [ptr EXCEPT !.owns = FALSE]

\* Drop for DetachableLcPtr: the frees it makes, as [obj, by]
DetachableLcPtr_drop(ptr) ==
    IF ptr.owns THEN <<[obj |-> ptr.name, by |-> "DetachableLcPtr"]>> ELSE <<>>

\* ECDSA_SIG_new: a signature object that owns none of the caller's bignums
ECDSA_SIG_new == [members |-> <<>>]

\* ECDSA_SIG_set0: on success the object takes ownership of r and s; on
\* failure it takes neither
ECDSA_SIG_set0(sig, r, s, ok) ==
    IF ok THEN [ret |-> 1, sig |-> [members |-> <<r, s>>]] ELSE [ret |-> 0, sig |-> sig]

\* ECDSA_SIG_free: frees the bignums the object owns, then the object
ECDSA_SIG_free(sig) ==
    [i \in 1..Len(sig.members) |-> [obj |-> sig.members[i], by |-> "ECDSA_SIG"]]
        \o <<[obj |-> "ecdsa_sig", by |-> "ECDSA_SIG"]>>

\* Drop for LcPtr<*mut ECDSA_SIG>
LcPtr_drop(sig) == ECDSA_SIG_free(sig)

\* ECDSA_SIG_from_fixed with the length test weakened to "too short"
ECDSA_SIG_from_fixed_min_length(alg_id, signature, fault) ==
    LET num_size_bytes == ecdsa_fixed_number_byte_size(alg_id)
        r_bn == BIGNUM_from_be_bytes(SubSeq(signature, 1, num_size_bytes), fault # "r_bn")
        s_bn == BIGNUM_from_be_bytes(
                    SubSeq(signature, num_size_bytes + 1, Len(signature)), fault # "s_bn")
        r_ptr == DetachableLcPtr_new("r_bn")
        s_ptr == DetachableLcPtr_new("s_bn")
        ecdsa_sig == ECDSA_SIG_new
        set0 == ECDSA_SIG_set0(ecdsa_sig, r_ptr.name, s_ptr.name, fault # "set0")
        Err(created, freed) == [kind |-> "Err", err |-> Unspecified, sig |-> NoSig,
                                created |-> created, freed |-> freed,
                                sig_obj |-> ECDSA_SIG_new]
    IN  IF Len(signature) < 2 * num_size_bytes THEN Err(<<>>, <<>>)
        ELSE IF r_bn.kind = "Err" THEN Err(<<>>, <<>>)
        ELSE IF s_bn.kind = "Err" THEN Err(<<"r_bn">>, DetachableLcPtr_drop(r_ptr))
        ELSE IF fault = "sig_new"
        THEN Err(<<"r_bn", "s_bn">>,
                 DetachableLcPtr_drop(s_ptr) \o DetachableLcPtr_drop(r_ptr))
        ELSE IF 1 # set0.ret
        THEN Err(<<"r_bn", "s_bn", "ecdsa_sig">>,
                 LcPtr_drop(set0.sig) \o DetachableLcPtr_drop(s_ptr)
                     \o DetachableLcPtr_drop(r_ptr))
        ELSE [kind |-> "Ok", err |-> NoError, sig |-> [r |-> r_bn.bn, s |-> s_bn.bn],
              created |-> <<"r_bn", "s_bn", "ecdsa_sig">>,
              freed |-> DetachableLcPtr_drop(DetachableLcPtr_detach(s_ptr))
                            \o DetachableLcPtr_drop(DetachableLcPtr_detach(r_ptr)),
              sig_obj |-> set0.sig]

\* ECDSA_SIG_from_fixed without the two detach calls
ECDSA_SIG_from_fixed_no_detach(alg_id, signature, fault) ==
    LET num_size_bytes == ecdsa_fixed_number_byte_size(alg_id)
        r_bn == BIGNUM_from_be_bytes(SubSeq(signature, 1, num_size_bytes), fault # "r_bn")
        s_bn == BIGNUM_from_be_bytes(
                    SubSeq(signature, num_size_bytes + 1, Len(signature)), fault # "s_bn")
        r_ptr == DetachableLcPtr_new("r_bn")
        s_ptr == DetachableLcPtr_new("s_bn")
        ecdsa_sig == ECDSA_SIG_new
        set0 == ECDSA_SIG_set0(ecdsa_sig, r_ptr.name, s_ptr.name, fault # "set0")
        Err(created, freed) == [kind |-> "Err", err |-> Unspecified, sig |-> NoSig,
                                created |-> created, freed |-> freed,
                                sig_obj |-> ECDSA_SIG_new]
    IN  IF Len(signature) # 2 * num_size_bytes THEN Err(<<>>, <<>>)
        ELSE IF r_bn.kind = "Err" THEN Err(<<>>, <<>>)
        ELSE IF s_bn.kind = "Err" THEN Err(<<"r_bn">>, DetachableLcPtr_drop(r_ptr))
        ELSE IF fault = "sig_new"
        THEN Err(<<"r_bn", "s_bn">>,
                 DetachableLcPtr_drop(s_ptr) \o DetachableLcPtr_drop(r_ptr))
        ELSE IF 1 # set0.ret
        THEN Err(<<"r_bn", "s_bn", "ecdsa_sig">>,
                 LcPtr_drop(set0.sig) \o DetachableLcPtr_drop(s_ptr)
                     \o DetachableLcPtr_drop(r_ptr))
        ELSE [kind |-> "Ok", err |-> NoError, sig |-> [r |-> r_bn.bn, s |-> s_bn.bn],
              created |-> <<"r_bn", "s_bn", "ecdsa_sig">>,
              freed |-> DetachableLcPtr_drop(s_ptr)
                            \o DetachableLcPtr_drop(r_ptr),
              sig_obj |-> set0.sig]

\* fault names the collaborator call that fails, if one does; created lists
\* the objects created by the call, in order, freed the frees made before
\* the call returns, in order, and sig_obj what the returned object owns.
\* The locals are dropped in the reverse order of their declaration.
ECDSA_SIG_from_fixed(alg_id, signature, fault) ==
    LET num_size_bytes == ecdsa_fixed_number_byte_size(alg_id)
        r_bn == BIGNUM_from_be_bytes(SubSeq(signature, 1, num_size_bytes), fault # "r_bn")
        s_bn == BIGNUM_from_be_bytes(
                    SubSeq(signature, num_size_bytes + 1, Len(signature)), fault # "s_bn")
        r_ptr == DetachableLcPtr_new("r_bn")
        s_ptr == DetachableLcPtr_new("s_bn")
        ecdsa_sig == ECDSA_SIG_new
        set0 == ECDSA_SIG_set0(ecdsa_sig, r_ptr.name, s_ptr.name, fault # "set0")
        Err(created, freed) == [kind |-> "Err", err |-> Unspecified, sig |-> NoSig,
                                created |-> created, freed |-> freed,
                                sig_obj |-> ECDSA_SIG_new]
    IN  IF Len(signature) # 2 * num_size_bytes THEN Err(<<>>, <<>>)
        ELSE IF r_bn.kind = "Err" THEN Err(<<>>, <<>>)
        ELSE IF s_bn.kind = "Err" THEN Err(<<"r_bn">>, DetachableLcPtr_drop(r_ptr))
        ELSE IF fault = "sig_new"
        THEN Err(<<"r_bn", "s_bn">>,
                 DetachableLcPtr_drop(s_ptr) \o DetachableLcPtr_drop(r_ptr))
        ELSE IF 1 # set0.ret
        THEN Err(<<"r_bn", "s_bn", "ecdsa_sig">>,
                 LcPtr_drop(set0.sig) \o DetachableLcPtr_drop(s_ptr)
                     \o DetachableLcPtr_drop(r_ptr))
        ELSE [kind |-> "Ok", err |-> NoError, sig |-> [r |-> r_bn.bn, s |-> s_bn.bn],
              created |-> <<"r_bn", "s_bn", "ecdsa_sig">>,
              freed |-> DetachableLcPtr_drop(DetachableLcPtr_detach(s_ptr))
                            \o DetachableLcPtr_drop(DetachableLcPtr_detach(r_ptr)),
              sig_obj |-> set0.sig]

----------------------------------------------------------------------------
(* Zeroizing key containers (aead/aes.rs) and their storage.               *)

Zeroize(bytes) == [i \in 1..Len(bytes) |-> 0]

\* a Drop that leaves the key array as it is
Aes128Key_drop_keeps(bytes) == bytes

\* impl Drop for Aes128Key: what the key array holds when drop returns
Aes128Key_drop(bytes) == Zeroize(bytes)

\* impl Drop for Aes256Key
Aes256Key_drop(bytes) == Zeroize(bytes)

\* the key container of the stream cipher
ChaCha20Key_drop(bytes) == Zeroize(bytes)

Aes128KeyLen == 16

Aes256KeyLen == 32

ChaCha20KeyLen == 32

\* the storage of a key container: none yet, live, or released with the
\* bytes it held at the release; original and path record what it was
\* built from and how its scope ended
NoStore == [state |-> "none", kind |-> "-", bytes |-> <<>>, original |-> <<>>,
            path |-> "-"]

LiveStore(kind, bytes) ==
    [state |-> "live", kind |-> kind, bytes |-> bytes, original |-> bytes, path |-> "-"]

\* the end of the container's scope on the exit path given: its Drop runs,
\* then the storage is released
DropContainer(st, path) ==
    [st EXCEPT !.state = "released", !.path = path,
               !.bytes = IF st.kind = "Aes128Key" THEN Aes128Key_drop(st.bytes)
                         ELSE IF st.kind = "Aes256Key" THEN Aes256Key_drop(st.bytes)
                         ELSE ChaCha20Key_drop(st.bytes)]

----------------------------------------------------------------------------
(* QUIC header protection (aead/quic.rs).                                  *)

SAMPLE_LEN == 16

MaskLen == 5

\* AES_128 with the initializer of AES_256
AES_128_init_256 == [id |-> "AES_128", key_len |-> 16, init |-> "aes_init_256",
                     new_mask |-> "cipher_new_mask"]

AES_128 == [id |-> "AES_128", key_len |-> 16, init |-> "aes_init_128",
            new_mask |-> "cipher_new_mask"]

AES_256 == [id |-> "AES_256", key_len |-> 32, init |-> "aes_init_256",
            new_mask |-> "cipher_new_mask"]

CHACHA20 == [id |-> "CHACHA20", key_len |-> 32, init |-> "chacha20_init",
             new_mask |-> "cipher_new_mask"]

Algorithms == {AES_128, AES_256, CHACHA20}

\* Algorithm::key_len
key_len(algorithm) == algorithm.key_len

\* Algorithm::sample_len
sample_len(algorithm) == SAMPLE_LEN

InitErr == [kind |-> "Err", err |-> Unspecified, inner |-> [cipher |-> "-"],
            store |-> NoStore]

\* cipher::SymmetricCipherKey::aes128 / aes256 / chacha20: the key container
\* of the cipher, built from exactly as many bytes as its array holds
SymmetricCipherKey_new(cipher, kind, len, key) ==
    IF Len(key) # len THEN InitErr
    ELSE [kind |-> "Ok", err |-> NoError, inner |-> [cipher |-> cipher],
          store |-> LiveStore(kind, key)]

\* KeyInner::new(cipher_key): on failure the cipher key it was given goes
\* out of scope
KeyInner_new(cipher_key, fault) ==
    IF fault = "key_inner"
    THEN [kind |-> "Err", err |-> Unspecified, inner |-> [cipher |-> "-"],
          store |-> DropContainer(cipher_key.store, "error")]
    ELSE cipher_key

aes_init_128(key, fault) ==
    LET aes_key == SymmetricCipherKey_new("Aes128", "Aes128Key", Aes128KeyLen, key) IN
    IF aes_key.kind = "Err" THEN aes_key ELSE KeyInner_new(aes_key, fault)

aes_init_256(key, fault) ==
    LET aes_key == SymmetricCipherKey_new("Aes256", "Aes256Key", Aes256KeyLen, key) IN
    IF aes_key.kind = "Err" THEN aes_key ELSE KeyInner_new(aes_key, fault)

chacha20_init(key, fault) ==
    LET chacha20 == SymmetricCipherKey_new("ChaCha20", "ChaCha20Key", ChaCha20KeyLen, key) IN
    IF chacha20.kind = "Err" THEN chacha20 ELSE KeyInner_new(chacha20, fault)

\* (algorithm.init)(key_bytes)
AlgorithmInit(algorithm, key, fault) ==
    IF algorithm.init = "aes_init_128" THEN aes_init_128(key, fault)
    ELSE IF algorithm.init = "aes_init_256" THEN aes_init_256(key, fault)
    ELSE chacha20_init(key, fault)

\* HeaderProtectionKey::new: [kind, err, key, store]
HeaderProtectionKey_new(algorithm, key_bytes, fault) ==
    LET inner == AlgorithmInit(algorithm, key_bytes, fault) IN
    IF inner.kind = "Err"
    THEN [kind |-> "Err", err |-> inner.err, key |-> [live |-> FALSE],
          store |-> inner.store]
    ELSE [kind |-> "Ok", err |-> NoError,
          key |-> [live |-> TRUE, inner |-> inner.inner, algorithm |-> algorithm],
          store |-> inner.store]

MAX_KEY_LEN == 32

\* hkdf::Okm::fill(out): out receives the derived bytes, unless its length
\* is not the length the Okm was made for or the key derivation fails
Okm_fill(okm, out, fill_ok) ==
    IF Len(out) # key_len(okm.len) \/ ~fill_ok
    THEN [kind |-> "Err", err |-> Unspecified, out |-> out]
    ELSE [kind |-> "Ok", err |-> NoError,
          out |-> [i \in 1..Len(out) |-> (okm.seed * i + 11) % 256]]

\* From<hkdf::Okm> for HeaderProtectionKey: both unwrap() calls panic on an
\* Err; [kind, err, key, key_bytes, store]
HeaderProtectionKey_from(okm, fill_ok, fault) ==
    LET algorithm == okm.len
        key_bytes == Zeros(key_len(algorithm))
        filled    == Okm_fill(okm, key_bytes, fill_ok)
        made      == HeaderProtectionKey_new(algorithm, filled.out, fault)
        Panic(st) == [kind |-> "Panic", err |-> NoError, key |-> [live |-> FALSE],
                      key_bytes |-> filled.out, store |-> st]
    IN  IF key_len(algorithm) > MAX_KEY_LEN THEN Panic(NoStore)
        ELSE IF filled.kind = "Err" THEN Panic(NoStore)
        ELSE IF made.kind = "Err" THEN Panic(made.store)
        ELSE [kind |-> "Ok", err |-> NoError, key |-> made.key,
              key_bytes |-> filled.out, store |-> made.store]

\* HeaderProtectionKey::algorithm
HeaderProtectionKey_algorithm(self) == self.algorithm

\* the cipher's one-block transform, abstracted: 16 bytes that depend on
\* the cipher, on every key byte and on every sample byte
EncryptBlock(cipher, key, sample) ==
    [i \in 1..Len(sample) |->
        (7 * key[((i - 1) % Len(key)) + 1] + 3 * sample[i] + SumBytes(key) + i
           + (IF cipher = "ChaCha20" THEN sample[((i + 3) % Len(sample)) + 1] ELSE Len(key)))
        % 256]

\* SymmetricCipherKey::new_mask: the first 5 bytes of the transformed
\* sample, or the failure of the primitive
SymmetricCipherKey_new_mask(cipher, key, sample, primitive_ok) ==
    IF primitive_ok
    THEN [kind |-> "Ok", err |-> NoError,
          out |-> SubSeq(EncryptBlock(cipher, key, sample), 1, MaskLen)]
    ELSE [kind |-> "Err", err |-> Unspecified, out |-> <<>>]

\* cipher_new_mask: unwrap() panics on the cipher's failure
cipher_new_mask(inner, key, sample, primitive_ok) ==
    LET m == SymmetricCipherKey_new_mask(inner.cipher, key, sample, primitive_ok) IN
    IF m.kind = "Err" THEN [kind |-> "Panic", err |-> NoError, out |-> <<>>]
    ELSE [kind |-> "Ok", err |-> NoError, out |-> m.out]

\* <&[u8; SAMPLE_LEN]>::try_from(sample)?
SampleTryFrom(sample) ==
    IF Len(sample) # SAMPLE_LEN THEN [kind |-> "Err", err |-> Unspecified, out |-> <<>>]
    ELSE [kind |-> "Ok", err |-> NoError, out |-> sample]

\* a new_mask that wipes the key it used
new_mask_key_wiped(key) == Zeroize(key)

\* what a new_mask call leaves in the key storage: it has &self only
new_mask_key_after(key) == key

----------------------------------------------------------------------------
(* The header-protection key in use: one key at a time, built, shared by   *)
(* the threads that call new_mask on it, and dropped.                      *)

NoKey == [live |-> FALSE]

Threads == 1..NumThreads

NoMask == [kind |-> "-", err |-> NoError, out |-> <<>>]

Idle == [pc |-> "idle", sample |-> <<>>, result |-> NoMask]

KeyLens == {0} \cup UNION {{key_len(a) - 1, key_len(a), key_len(a) + 1} : a \in Algorithms}

\* FF .. FF, and a key of varied bytes
KeyPattern(len, k) == [i \in 1..len |-> IF k = 1 THEN 255 ELSE (29 * i + 7) % 256]

KeyBytes == {KeyPattern(len, k) : len \in KeyLens, k \in 1..2}

SamplePattern(len, k) == [i \in 1..len |-> IF k = 1 THEN 175 + i ELSE (13 * i) % 256]

Samples ==
    {SamplePattern(len, 1) : len \in {0, SAMPLE_LEN - 1, SAMPLE_LEN + 1}}
    \cup {SamplePattern(SAMPLE_LEN, k) : k \in 1..2}

AllIdle == \A t \in Threads : threads[t].pc = "idle"

New(alg, key_bytes, fault) ==
    /\ ~hpk.live
    /\ AllIdle
    /\ LET r == HeaderProtectionKey_new(alg, key_bytes, fault) IN
        /\ call' = [op |-> "new", phase |-> "done", algorithm |-> alg,
                    key_bytes |-> key_bytes, fault |-> fault,
                    result |-> [kind |-> r.kind, err |-> r.err]]
        /\ hpk' = r.key
        /\ store' = r.store
    /\ UNCHANGED threads

\* the seeds of the key derivations tried
OkmSeeds == {3, 29}

\* HeaderProtectionKey::from(okm)
From(alg, seed, fill_ok, fault) ==
    /\ ~hpk.live
    /\ AllIdle
    /\ LET r == HeaderProtectionKey_from([len |-> alg, seed |-> seed], fill_ok, fault) IN
        /\ call' = [op |-> "from", phase |-> "done", algorithm |-> alg,
                    key_bytes |-> r.key_bytes, fault |-> fault,
                    result |-> [kind |-> r.kind, err |-> r.err]]
        /\ hpk' = r.key
        /\ store' = r.store
    /\ UNCHANGED threads

\* new_mask up to the conversion of the sample
NewMaskBegin(t, sample) ==
    /\ hpk.live
    /\ threads[t].pc = "idle"
    /\ LET s == SampleTryFrom(sample) IN
        threads' = [threads EXCEPT ![t] =
                       IF s.kind = "Err"
                       THEN [pc |-> "returned", sample |-> sample, result |-> s]
                       ELSE [pc |-> "sampled", sample |-> s.out, result |-> NoMask]]
    /\ UNCHANGED <<call, hpk, store>>

\* new_mask from (self.algorithm.new_mask)(&self.inner, *sample) to its return
NewMaskFinish(t, primitive_ok) ==
    /\ hpk.live
    /\ threads[t].pc = "sampled"
    /\ threads' = [threads EXCEPT ![t] =
                      [pc |-> "returned", sample |-> threads[t].sample,
                       result |-> cipher_new_mask(hpk.inner, store.bytes,
                                                  threads[t].sample, primitive_ok)]]
    /\ store' = [store EXCEPT !.bytes = new_mask_key_after(store.bytes)]
    /\ UNCHANGED <<call, hpk>>

\* the caller takes the result of its call
Return(t) ==
    /\ threads[t].pc = "returned"
    /\ threads' = [threads EXCEPT ![t] = Idle]
    /\ UNCHANGED <<call, hpk, store>>

\* the key's owner leaves its scope, by returning or by unwinding, while no
\* call borrows the key
DropKey(path) ==
    /\ hpk.live
    /\ AllIdle
    /\ call' = [op |-> "drop", phase |-> "done", path |-> path]
    /\ hpk' = NoKey
    /\ store' = DropContainer(store, path)
    /\ UNCHANGED threads

KeyFaults == {"none", "key_inner"}

InitQuic ==
    /\ call = [op |-> "none", phase |-> "done"]
    /\ hpk = NoKey
    /\ store = NoStore
    /\ threads = [t \in Threads |-> Idle]

NextQuic ==
    \/ \E alg \in Algorithms, key_bytes \in KeyBytes, fault \in KeyFaults :
           New(alg, key_bytes, fault)
    \/ \E alg \in Algorithms, seed \in OkmSeeds, fill_ok \in BOOLEAN, fault \in KeyFaults :
           From(alg, seed, fill_ok, fault)
    \/ \E t \in Threads, sample \in Samples : NewMaskBegin(t, sample)
    \/ \E t \in Threads, primitive_ok \in BOOLEAN : NewMaskFinish(t, primitive_ok)
    \/ \E t \in Threads : Return(t)
    \/ \E path \in {"return", "unwind"} : DropKey(path)

SpecQuic == InitQuic /\ [][NextQuic]_vars

----------------------------------------------------------------------------
(* Inputs of the signature codec.                                          *)

NumberSizes == {ecdsa_fixed_number_byte_size(a) : a \in AlgorithmID}

\* the lengths of the bignum encodings that are tried: the small ones, the
\* ones around each curve's number size and the ones past the scratch buffer
BNLens ==
    (0..MaxSmallLen)
    \cup UNION {{n - 1, n, n + 1} : n \in NumberSizes}
    \cup (MAX_ECDSA_FIXED_NUMBER_BYTE_SIZE..(MAX_ECDSA_FIXED_NUMBER_BYTE_SIZE + MaxOverLen))

\* two minimal encodings of each length: 01 00 .. 00 and FF followed by
\* varied non-zero bytes
PatternBN(len, k) ==
    [i \in 1..len |-> IF k = 1 THEN (IF i = 1 THEN 1 ELSE 0)
                      ELSE (IF i = 1 THEN 255 ELSE (i * 37) % 256)]

BigNumValues == {PatternBN(len, k) : len \in BNLens, k \in 1..2}

SigObjects ==
    {[r |-> r, s |-> s] : r \in {BN(v) : v \in BigNumValues} \cup {NullBN},
                          s \in {BN(v) : v \in BigNumValues} \cup {NullBN}}

PadLeft(v, n) == Zeros(n - Len(v)) \o v

\* b cut or extended (with the byte 7) to len bytes
Resize(b, len) == [i \in 1..len |-> IF i <= Len(b) THEN b[i] ELSE 7]

FixedValues(n) == {v \in BigNumValues : Len(v) \in {0, 1, n - 1, n}}

FixedSigLens(n) == {0, 2 * n - 1, 2 * n, 2 * n + 1} \cup {2 * m : m \in NumberSizes}

FixedSignatures(alg_id) ==
    LET n == ecdsa_fixed_number_byte_size(alg_id) IN
    {Resize(PadLeft(r, n) \o PadLeft(s, n), len) :
        r \in FixedValues(n), s \in FixedValues(n), len \in FixedSigLens(n)}

FromFixedFaults == {"none", "r_bn", "s_bn", "sig_new", "set0"}

----------------------------------------------------------------------------
(* The calls of the signature codec.                                       *)

\* a call is first a request (its inputs) and then done (with its result)
ToFixedRequests ==
    {[op |-> "to_fixed", phase |-> "request", alg_id |-> alg_id, sig |-> sig,
      overflow_checks |-> overflow_checks] :
        alg_id \in AlgorithmID, sig \in SigObjects, overflow_checks \in BOOLEAN}

ToFixed ==
    /\ call.op = "to_fixed" /\ call.phase = "request"
    /\ call' = [op |-> "to_fixed", phase |-> "done", alg_id |-> call.alg_id,
                sig |-> call.sig, overflow_checks |-> call.overflow_checks,
                result |-> ECDSA_SIG_to_fixed(call.alg_id, call.sig, call.overflow_checks)]
    /\ UNCHANGED <<hpk, store, threads>>

FromFixedRequests ==
    UNION {{[op |-> "from_fixed", phase |-> "request", alg_id |-> alg_id,
             signature |-> signature, fault |-> fault] :
                signature \in FixedSignatures(alg_id), fault \in FromFixedFaults} :
           alg_id \in AlgorithmID}

FromFixed ==
    /\ call.op = "from_fixed" /\ call.phase = "request"
    /\ call' = [op |-> "from_fixed", phase |-> "done", alg_id |-> call.alg_id,
                signature |-> call.signature, fault |-> call.fault,
                of_to_fixed |-> FALSE, origin |-> NoSig,
                result |-> ECDSA_SIG_from_fixed(call.alg_id, call.signature, call.fault)]
    /\ UNCHANGED <<hpk, store, threads>>

\* the caller of a successful ECDSA_SIG_from_fixed lets the LcPtr it was
\* returned go out of scope
DropSignature ==
    /\ call.op = "from_fixed" /\ call.phase = "done"
    /\ call.result.kind = "Ok"
    /\ call' = [call EXCEPT !.phase = "dropped",
                            !.result.freed = @ \o LcPtr_drop(call.result.sig_obj)]
    /\ UNCHANGED <<hpk, store, threads>>

\* the Signature a successful ECDSA_SIG_to_fixed returned is decoded again
FromFixedOfToFixed ==
    /\ call.op = "to_fixed" /\ call.phase = "done"
    /\ call.result.kind = "Ok"
    /\ call' = [op |-> "from_fixed", phase |-> "done", alg_id |-> call.alg_id,
                signature |-> call.result.bytes,
                fault |-> "none", of_to_fixed |-> TRUE, origin |-> call.sig,
                result |-> ECDSA_SIG_from_fixed(call.alg_id, call.result.bytes, "none")]
    /\ UNCHANGED <<hpk, store, threads>>

----------------------------------------------------------------------------
(* The collaborators of verify: curve groups, points, keys, DER, digests   *)
(* and the raw verification primitive (aws-lc-sys, crate::digest).         *)

ASN1 == "ASN1"

Fixed == "Fixed"

\* the fields of an EcdsaVerificationAlgorithm
VerificationAlgorithm(id, sig_format) ==
    [id |-> id,
     digest |-> IF id = P256 THEN "SHA256" ELSE "SHA384",
     bits |-> 8 * ecdsa_fixed_number_byte_size(id),
     nid |-> IF id = P256 THEN "prime256v1" ELSE "secp384r1",
     sig_format |-> sig_format]

VerificationAlgorithms ==
    {VerificationAlgorithm(id, f) : id \in AlgorithmID, f \in {ASN1, Fixed}}

\* the byte length of a field element of the curve nid names
FieldBytes(nid) == IF nid = "prime256v1" THEN 32 ELSE 48

NullPtr == [null |-> TRUE]

\* EC_GROUP_new_by_curve_name
EC_GROUP_new_by_curve_name(nid, alloc_ok) ==
    IF alloc_ok THEN [null |-> FALSE, nid |-> nid] ELSE NullPtr

\* the curve equation, abstracted: the y that belongs to x on the curve
CurveY(nid, x) == [i \in 1..Len(x) |-> (5 * x[i] + 3 + i + FieldBytes(nid)) % 256]

\* EC_POINT_oct2point: 1 and the point when bytes is the uncompressed
\* (04 X Y) or compressed (02/03 X) encoding of a point of the curve, else 0
EC_POINT_oct2point(group, bytes) ==
    LET f == FieldBytes(group.nid)
        x == SubSeq(bytes, 2, 1 + f)
        Bad == [ret |-> 0, point |-> [x |-> <<>>, y |-> <<>>]]
    IN  IF Len(bytes) = 0 THEN Bad
        ELSE IF bytes[1] = 4
        THEN IF Len(bytes) = 1 + 2 * f /\ SubSeq(bytes, 2 + f, 1 + 2 * f) = CurveY(group.nid, x)
             THEN [ret |-> 1, point |-> [x |-> x, y |-> CurveY(group.nid, x)]]
             ELSE Bad
        ELSE IF bytes[1] \in {2, 3}
        THEN IF Len(bytes) = 1 + f /\ CurveY(group.nid, x)[f] % 2 = bytes[1] % 2
             THEN [ret |-> 1, point |-> [x |-> x, y |-> CurveY(group.nid, x)]]
             ELSE Bad
        ELSE Bad

\* a DER INTEGER at b[off..]: [ok, v, next]; negative and non-minimal
\* contents are rejected, as by BN_parse_asn1_unsigned
DerParseInteger(b, off) ==
    LET Bad == [ok |-> FALSE, v |-> <<>>, next |-> off]
        l == b[off + 1]
        c == SubSeq(b, off + 2, off + 1 + l)
    IN  IF off + 1 > Len(b) THEN Bad
        ELSE IF b[off] # 2 THEN Bad
        ELSE IF l = 0 \/ l >= 128 \/ off + 1 + l > Len(b) THEN Bad
        ELSE IF c[1] >= 128 THEN Bad
        ELSE IF l > 1 /\ c[1] = 0 /\ c[2] < 128 THEN Bad
        ELSE [ok |-> TRUE, v |-> StripLeadingZeros(c), next |-> off + 2 + l]

\* ECDSA_SIG_from_bytes: the signature object of a DER SEQUENCE of two
\* INTEGERs with nothing after it, or NULL
ECDSA_SIG_from_bytes(b, alloc_ok) ==
    LET Null == [null |-> TRUE, sig |-> NoSig]
        long == Len(b) >= 3 /\ b[2] = 129
        hdr  == IF long THEN 3 ELSE 2
        l    == IF long THEN b[3] ELSE b[2]
        r    == DerParseInteger(b, hdr + 1)
        s    == DerParseInteger(b, r.next)
    IN  IF ~alloc_ok \/ Len(b) < 2 THEN Null
        ELSE IF b[1] # 48 THEN Null
        ELSE IF (~long /\ l >= 128) \/ (long /\ l < 128) THEN Null
        ELSE IF Len(b) # hdr + l THEN Null
        ELSE IF ~r.ok THEN Null
        ELSE IF ~s.ok THEN Null
        ELSE IF s.next # Len(b) + 1 THEN Null
        ELSE [null |-> FALSE, sig |-> [r |-> BN(r.v), s |-> BN(s.v)]]

DigestLen(name) == IF name = "SHA256" THEN 32 ELSE 48

\* digest::digest, abstracted: a byte string of the digest's length that
\* depends on every byte of the message
Digest(name, msg) ==
    [i \in 1..DigestLen(name) |-> (11 * i + 13 * SumBytes(msg) + Len(msg) + 1) % 256]

\* the signature relation, abstracted: the one (r, s) that verifies for a
\* public point and a digest; both are in 1..n-1
SignatureOf(point, d) ==
    [r |-> BN(StripLeadingZeros(
              [i \in 1..Len(point.x) |->
                  IF i = Len(point.x) THEN 1
                  ELSE (point.x[i] + d[((i - 1) % Len(d)) + 1]) % 256])),
     s |-> BN(StripLeadingZeros(
              [i \in 1..Len(point.y) |->
                  IF i = Len(point.y) THEN 1
                  ELSE (point.y[i] + 3 * d[((i - 1) % Len(d)) + 1]) % 256]))]

\* ECDSA_do_verify: 1 when the signature verifies, 0 when it does not or
\* when the primitive fails inside
ECDSA_do_verify(d, sig, key, primitive_ok) ==
    IF primitive_ok /\ sig = SignatureOf(key.point, d) THEN 1 ELSE 0

----------------------------------------------------------------------------
(* EcdsaVerificationAlgorithm::verify and its helpers.                     *)

\* LcPtr::new(ptr).map_err(|_| Unspecified)
LcPtr_new(ptr) ==
    IF ptr.null THEN [kind |-> "Err", err |-> Unspecified, ptr |-> ptr]
    ELSE [kind |-> "Ok", err |-> NoError, ptr |-> ptr]

EC_GROUP_from_nid(nid, fault) ==
    LcPtr_new(EC_GROUP_new_by_curve_name(nid, fault # "group"))

\* EC_POINT_from_bytes reporting a rejected encoding as KeyRejected
EC_POINT_from_bytes_key_rejected(ec_group, bytes, fault) ==
    LET ec_point == LcPtr_new(IF fault = "point_new" THEN NullPtr ELSE [null |-> FALSE])
        decoded  == EC_POINT_oct2point(ec_group, bytes)
        NoPoint  == [x |-> <<>>, y |-> <<>>]
    IN  IF ec_point.kind = "Err"
        THEN [kind |-> "Err", err |-> ec_point.err, point |-> NoPoint]
        ELSE IF 1 # decoded.ret
        THEN [kind |-> "Err", err |-> "KeyRejected", point |-> NoPoint]
        ELSE [kind |-> "Ok", err |-> NoError, point |-> decoded.point]

EC_POINT_from_bytes(ec_group, bytes, fault) ==
    LET ec_point == LcPtr_new(IF fault = "point_new" THEN NullPtr ELSE [null |-> FALSE])
        decoded  == EC_POINT_oct2point(ec_group, bytes)
        NoPoint  == [x |-> <<>>, y |-> <<>>]
    IN  IF ec_point.kind = "Err"
        THEN [kind |-> "Err", err |-> ec_point.err, point |-> NoPoint]
        ELSE IF 1 # decoded.ret
        THEN [kind |-> "Err", err |-> Unspecified, point |-> NoPoint]
        ELSE [kind |-> "Ok", err |-> NoError, point |-> decoded.point]

EC_KEY_from_public_point(ec_group, public_ec_point, fault) ==
    LET ec_key == LcPtr_new(IF fault = "key_new" THEN NullPtr ELSE [null |-> FALSE])
        NoEcKey == [nid |-> "-", point |-> [x |-> <<>>, y |-> <<>>]]
    IN  IF ec_key.kind = "Err" THEN [kind |-> "Err", err |-> ec_key.err, key |-> NoEcKey]
        ELSE IF fault = "set_group" THEN [kind |-> "Err", err |-> Unspecified, key |-> NoEcKey]
        ELSE IF fault = "set_public_key"
        THEN [kind |-> "Err", err |-> Unspecified, key |-> NoEcKey]
        ELSE [kind |-> "Ok", err |-> NoError,
              key |-> [nid |-> ec_group.nid, point |-> public_ec_point]]

ELEM_MAX_BITS == 384

ELEM_MAX_BYTES == (ELEM_MAX_BITS + 7) \div 8

PUBLIC_KEY_MAX_LEN == 1 + (2 * ELEM_MAX_BYTES)

\* the point at infinity, which has no affine coordinates
PointAtInfinity == [x |-> <<>>, y |-> <<>>]

\* EC_POINT_point2oct in uncompressed form: writes 04 X Y at the start of
\* buf and returns its length; returns 0 for the point at infinity, for a
\* buffer of len bytes that is too short and when the library fails
EC_POINT_point2oct(group, point, buf, len, primitive_ok) ==
    LET out == <<4>> \o point.x \o point.y IN
    IF ~primitive_ok \/ point = PointAtInfinity \/ Len(out) > len
    THEN [out_len |-> 0, buf |-> buf]
    ELSE [out_len |-> Len(out), buf |-> CopyInto(buf, 0, out)]

EC_POINT_to_bytes(ec_group, ec_point, buf, primitive_ok) ==
    LET w == EC_POINT_point2oct(ec_group, ec_point, buf, PUBLIC_KEY_MAX_LEN, primitive_ok) IN
    IF w.out_len = 0
    THEN [kind |-> "Err", err |-> Unspecified, out_len |-> 0, buf |-> w.buf]
    ELSE [kind |-> "Ok", err |-> NoError, out_len |-> w.out_len, buf |-> w.buf]

\* ec_key is [group, public_key]: what EC_KEY_get0_group and
\* EC_KEY_get0_public_key return, either of which may be null; expect()
\* panics when EC_POINT_to_bytes fails
marshal_public_key(ec_key, primitive_ok) ==
    LET out == EC_POINT_to_bytes(ec_key.group, ec_key.public_key.point,
                                 Zeros(PUBLIC_KEY_MAX_LEN), primitive_ok)
        Outcome(kind, err, bytes) == [kind |-> kind, err |-> err, bytes |-> bytes]
    IN  IF ec_key.group.null THEN Outcome("Err", Unspecified, <<>>)
        ELSE IF ec_key.public_key.null THEN Outcome("Err", Unspecified, <<>>)
        ELSE IF out.kind = "Err" THEN Outcome("Panic", NoError, <<>>)
        ELSE Outcome("Ok", NoError, SubSeq(out.buf, 1, out.out_len))

ECDSA_SIG_from_asn1(signature, fault) ==
    LET p == LcPtr_new(ECDSA_SIG_from_bytes(signature, fault # "sig_from_bytes")) IN
    [kind |-> p.kind, err |-> p.err, sig |-> p.ptr.sig]

\* the outcome of verify, with the stage that failed ("-" when none did)
VerifyOutcome(kind, err, stage) == [kind |-> kind, err |-> err, stage |-> stage]

\* verify without the test of what ECDSA_do_verify returned
verify_unchecked(self, public_key, msg, signature, fault) ==
    LET ec_group  == EC_GROUP_from_nid(self.nid, fault)
        ec_point  == EC_POINT_from_bytes(ec_group.ptr, public_key, fault)
        ec_key    == EC_KEY_from_public_point(ec_group.ptr, ec_point.point, fault)
        ecdsa_sig == IF self.sig_format = ASN1
                     THEN ECDSA_SIG_from_asn1(signature, fault)
                     ELSE ECDSA_SIG_from_fixed(self.id, signature, fault)
    IN  IF ec_group.kind = "Err" THEN VerifyOutcome("Err", ec_group.err, "group")
        ELSE IF ec_point.kind = "Err" THEN VerifyOutcome("Err", ec_point.err, "point")
        ELSE IF ec_key.kind = "Err" THEN VerifyOutcome("Err", ec_key.err, "key")
        ELSE IF ecdsa_sig.kind = "Err"
        THEN VerifyOutcome("Err", ecdsa_sig.err, "signature")
        ELSE VerifyOutcome("Ok", NoError, "-")

verify(self, public_key, msg, signature, fault) ==
    LET ec_group  == EC_GROUP_from_nid(self.nid, fault)
        ec_point  == EC_POINT_from_bytes(ec_group.ptr, public_key, fault)
        ec_key    == EC_KEY_from_public_point(ec_group.ptr, ec_point.point, fault)
        ecdsa_sig == IF self.sig_format = ASN1
                     THEN ECDSA_SIG_from_asn1(signature, fault)
                     ELSE ECDSA_SIG_from_fixed(self.id, signature, fault)
        msg_digest == Digest(self.digest, msg)
    IN  IF ec_group.kind = "Err" THEN VerifyOutcome("Err", ec_group.err, "group")
        ELSE IF ec_point.kind = "Err" THEN VerifyOutcome("Err", ec_point.err, "point")
        ELSE IF ec_key.kind = "Err" THEN VerifyOutcome("Err", ec_key.err, "key")
        ELSE IF ecdsa_sig.kind = "Err"
        THEN VerifyOutcome("Err", ecdsa_sig.err, "signature")
        ELSE IF 1 # ECDSA_do_verify(msg_digest, ecdsa_sig.sig, ec_key.key,
                                    fault # "do_verify")
        THEN VerifyOutcome("Err", Unspecified, "do_verify")
        ELSE VerifyOutcome("Ok", NoError, "-")

----------------------------------------------------------------------------
(* Inputs of verify.                                                       *)

\* b with the low bit of byte k flipped
FlipByte(b, k) == [b EXCEPT ![k] = IF b[k] % 2 = 0 THEN b[k] + 1 ELSE b[k] - 1]

GoodPoint(nid) ==
    LET x == [i \in 1..FieldBytes(nid) |-> (17 * i + 48) % 256] IN
    [x |-> x, y |-> CurveY(nid, x)]

Uncompressed(point) == <<4>> \o point.x \o point.y

Compressed(point) == <<2 + (point.y[Len(point.y)] % 2)>> \o point.x

Nids == {a.nid : a \in VerificationAlgorithms}

PublicKeys(nid) ==
    LET good == Uncompressed(GoodPoint(nid)) IN
    {good, Compressed(GoodPoint(nid)), Resize(good, Len(good) - 1),
     Resize(good, Len(good) + 1), FlipByte(good, Len(good)), FlipByte(good, 1), <<>>}
    \cup {Uncompressed(GoodPoint(n)) : n \in Nids}

Messages == {<<>>, <<97>>}

\* the message the signatures tried were made for
SignedMessage == <<>>

DerInteger(v) ==
    LET c == IF v = <<>> THEN <<0>> ELSE IF v[1] >= 128 THEN <<0>> \o v ELSE v IN
    <<2, Len(c)>> \o c

DerSignature(sig) ==
    LET body == DerInteger(sig.r.v) \o DerInteger(sig.s.v) IN
    IF Len(body) < 128 THEN <<48, Len(body)>> \o body ELSE <<48, 129, Len(body)>> \o body

FixedSignature(id, sig) ==
    PadLeft(sig.r.v, ecdsa_fixed_number_byte_size(id))
        \o PadLeft(sig.s.v, ecdsa_fixed_number_byte_size(id))

GoodSig(alg) == SignatureOf(GoodPoint(alg.nid), Digest(alg.digest, SignedMessage))

Encoded(alg, sig) ==
    IF alg.sig_format = ASN1 THEN DerSignature(sig) ELSE FixedSignature(alg.id, sig)

VerifySignatures(alg) ==
    LET good == Encoded(alg, GoodSig(alg)) IN
    {good, Resize(good, Len(good) - 1), Resize(good, Len(good) + 1), <<>>,
     DerSignature(GoodSig(alg)), FixedSignature(alg.id, GoodSig(alg))}
    \cup {FlipByte(good, k) : k \in (1..MaxFlip) \cup {Len(good)}}

VerifyFaults(alg) ==
    {"none", "group", "point_new", "key_new", "set_group", "set_public_key", "do_verify"}
    \cup (IF alg.sig_format = ASN1 THEN {"sig_from_bytes"}
          ELSE FromFixedFaults \ {"none"})

VerifyRequests ==
    UNION {{[op |-> "verify", phase |-> "request", alg |-> alg, public_key |-> public_key,
             msg |-> msg, signature |-> signature, fault |-> fault] :
                public_key \in PublicKeys(alg.nid), msg \in Messages,
                signature \in VerifySignatures(alg), fault \in VerifyFaults(alg)} :
           alg \in VerificationAlgorithms}

Verify ==
    /\ call.op = "verify" /\ call.phase = "request"
    /\ call' = [op |-> "verify", phase |-> "done", alg |-> call.alg,
                public_key |-> call.public_key, msg |-> call.msg,
                signature |-> call.signature, fault |-> call.fault,
                result |-> verify(call.alg, call.public_key, call.msg, call.signature,
                                  call.fault)]
    /\ UNCHANGED <<hpk, store, threads>>

\* the lengths of the buffers BIGNUM_to_be_bytes is given: none, the small
\* ones, each curve's number size and the scratch buffer of ECDSA_SIG_to_fixed
BufferLens == (0..MaxSmallLen) \cup NumberSizes \cup {MAX_ECDSA_FIXED_NUMBER_BYTE_SIZE}

\* the bignum is behind a NonNullPtr; the buffer arrives holding the byte 7
ToBeBytesRequests ==
    {[op |-> "to_be_bytes", phase |-> "request", bignum |-> BN(v),
      bytes |-> Resize(<<>>, len)] : v \in BigNumValues, len \in BufferLens}

ToBeBytes ==
    /\ call.op = "to_be_bytes" /\ call.phase = "request"
    /\ call' = [op |-> "to_be_bytes", phase |-> "done", bignum |-> call.bignum,
                bytes |-> call.bytes,
                result |-> BIGNUM_to_be_bytes(call.bignum, call.bytes)]
    /\ UNCHANGED <<hpk, store, threads>>

\* the keys marshal_public_key is given: for each curve a key holding the
\* good point, one holding the point at infinity, one without a public
\* key and one without a group
EcKeys ==
    UNION {{[group |-> g, public_key |-> pk] :
                g \in {EC_GROUP_new_by_curve_name(nid, TRUE), NullPtr},
                pk \in {[null |-> FALSE, point |-> GoodPoint(nid)],
                        [null |-> FALSE, point |-> PointAtInfinity],
                        [null |-> TRUE, point |-> PointAtInfinity]}} :
           nid \in Nids}

MarshalRequests ==
    {[op |-> "marshal", phase |-> "request", ec_key |-> ec_key,
      primitive_ok |-> primitive_ok] : ec_key \in EcKeys, primitive_ok \in BOOLEAN}

Marshal ==
    /\ call.op = "marshal" /\ call.phase = "request"
    /\ call' = [op |-> "marshal", phase |-> "done", ec_key |-> call.ec_key,
                primitive_ok |-> call.primitive_ok,
                result |-> marshal_public_key(call.ec_key, call.primitive_ok)]
    /\ UNCHANGED <<hpk, store, threads>>

----------------------------------------------------------------------------
(* The specification of the ec module: one call of one operation on one    *)
(* input, and the decoding of what ECDSA_SIG_to_fixed returned.            *)

InitEc ==
    /\ call \in ToFixedRequests \cup FromFixedRequests \cup VerifyRequests
                \cup MarshalRequests \cup ToBeBytesRequests
    /\ hpk = NoKey
    /\ store = NoStore
    /\ threads = [t \in Threads |-> Idle]

NextEc ==
    \/ ToFixed
    \/ FromFixed
    \/ FromFixedOfToFixed
    \/ DropSignature
    \/ Verify
    \/ Marshal
    \/ ToBeBytes

SpecEc == InitEc /\ [][NextEc]_vars

----------------------------------------------------------------------------
(* Claims about the ec module, checked under SpecEc.                       *)

Done(op) == call.op = op /\ call.phase = "done"

\* the stages of a verify call, each evaluated on the call's inputs
PointDecodes(c) ==
    EC_POINT_oct2point(EC_GROUP_new_by_curve_name(c.alg.nid, TRUE), c.public_key).ret = 1

DecodedPoint(c) ==
    EC_POINT_oct2point(EC_GROUP_new_by_curve_name(c.alg.nid, TRUE), c.public_key).point

\* the signature bytes are the declared format's encoding of the one
\* signature that verifies for the key and the message
IsSignatureFor(c) ==
    c.signature = Encoded(c.alg, SignatureOf(DecodedPoint(c), Digest(c.alg.digest, c.msg)))

\* C1: verify returns Ok or Err and never panics; it returns Ok only when no
\* collaborator failed, the public key decodes to a point of the curve and
\* the signature bytes are, in the algorithm's declared format, the
\* signature that verifies for that point and the message digest; in every
\* other case, among them a truncated signature, a public key of a wrong
\* length, a signature with one byte flipped and a Fixed signature of
\* 2N+1 bytes, it returns Err.
C1_VerifyAllOrNothing ==
    Done("verify") =>
        /\ call.result.kind \in {"Ok", "Err"}
        /\ (call.result.kind = "Ok") <=>
               (call.fault = "none" /\ PointDecodes(call) /\ IsSignatureFor(call))
        /\ LET good == Encoded(call.alg, GoodSig(call.alg))
               n == ecdsa_fixed_number_byte_size(call.alg.id)
               f == FieldBytes(call.alg.nid)
           IN  /\ Len(call.signature) < Len(good) => call.result.kind = "Err"
               /\ Len(call.public_key) \notin {1 + f, 1 + 2 * f} => call.result.kind = "Err"
               /\ (\E k \in 1..Len(good) : call.signature = FlipByte(good, k))
                     => call.result.kind = "Err"
               /\ (call.alg.sig_format = Fixed /\ Len(call.signature) = 2 * n + 1)
                     => call.result.kind = "Err"

\* C1 witness: a verify call that succeeded, and the signature was ASN.1
C1_Witness ==
    /\ Done("verify")
    /\ call.result.kind = "Ok"
    /\ call.alg.sig_format = ASN1
    /\ call.public_key = Uncompressed(GoodPoint(call.alg.nid))

\* C2: ECDSA_SIG_from_fixed fails for every input whose length is not 2N,
\* and has then created no bignum and no signature object.
C2_FromFixedLength ==
    (Done("from_fixed") /\ Len(call.signature) # 2 * ecdsa_fixed_number_byte_size(call.alg_id))
        => (call.result.kind = "Err" /\ call.result.created = <<>>)

\* C2 witness: a signature of 2N+1 bytes was rejected with no fault injected
C2_Witness ==
    /\ Done("from_fixed")
    /\ Len(call.signature) = 2 * ecdsa_fixed_number_byte_size(call.alg_id) + 1
    /\ call.fault = "none"
    /\ call.result.kind = "Err"

Fits(bn, n) == ~bn.null /\ Len(bn.v) <= n

\* C3: for r and s that fit in N bytes (zero included) ECDSA_SIG_to_fixed
\* succeeds, and ECDSA_SIG_from_fixed of its output yields the same (r, s).
C3_FixedRoundTrip ==
    /\ (Done("to_fixed")
          /\ Fits(call.sig.r, ecdsa_fixed_number_byte_size(call.alg_id))
          /\ Fits(call.sig.s, ecdsa_fixed_number_byte_size(call.alg_id)))
         => call.result.kind = "Ok"
    /\ (Done("from_fixed") /\ call.of_to_fixed
          /\ Fits(call.origin.r, ecdsa_fixed_number_byte_size(call.alg_id))
          /\ Fits(call.origin.s, ecdsa_fixed_number_byte_size(call.alg_id)))
         => (call.result.kind = "Ok" /\ call.result.sig = call.origin)

\* C4: ECDSA_SIG_to_fixed returns an error whenever the encoding of r or of
\* s is longer than N bytes.
C4_ToFixedTooLong ==
    (Done("to_fixed") /\ ~call.sig.r.null /\ ~call.sig.s.null
       /\ (Len(call.sig.r.v) > ecdsa_fixed_number_byte_size(call.alg_id)
            \/ Len(call.sig.s.v) > ecdsa_fixed_number_byte_size(call.alg_id)))
        => call.result.kind = "Err"

\* C5: the output of ECDSA_SIG_to_fixed has 2N bytes; its first N bytes are
\* zeros followed by r and its last N bytes are zeros followed by s.
C5_FixedLayout ==
    (Done("to_fixed") /\ call.result.kind = "Ok") =>
        LET n == ecdsa_fixed_number_byte_size(call.alg_id) IN
        /\ Len(call.result.bytes) = 2 * n
        /\ SubSeq(call.result.bytes, 1, n) = PadLeft(call.sig.r.v, n)
        /\ SubSeq(call.result.bytes, n + 1, 2 * n) = PadLeft(call.sig.s.v, n)

\* C9: every failing verify call returns the one error value Unspecified,
\* whichever stage failed.
C9_OneError ==
    (Done("verify") /\ call.result.kind # "Ok")
        => (call.result.kind = "Err" /\ call.result.err = Unspecified)

\* C9 witness: a verify call that failed at the decoding of the signature
C9_Witness ==
    /\ Done("verify")
    /\ call.result.kind = "Err"
    /\ call.result.stage = "signature"
    /\ call.fault = "none"

----------------------------------------------------------------------------
(* Claims about the header-protection key and the key containers, checked  *)
(* under SpecQuic.                                                         *)

C7_NewKeyLength ==
    Done("new") =>
        /\ Len(call.key_bytes) # key_len(call.algorithm) => call.result.kind = "Err"
        /\ call.result.kind = "Ok" =>
               (hpk.live /\ HeaderProtectionKey_algorithm(hpk) = call.algorithm)
        /\ call.result.kind = "Err" => ~hpk.live

\* C7 witness: a key of a wrong length was refused, for AES_128
C7_Witness ==
    /\ Done("new")
    /\ call.algorithm = AES_128
    /\ Len(call.key_bytes) = key_len(CHACHA20)
    /\ call.result.kind = "Err"

\* C8: the released storage of an Aes128Key or Aes256Key holds only zero
\* bytes, whichever way the owning scope was left.
C8_ZeroedOnRelease ==
    (store.state = "released" /\ store.kind \in {"Aes128Key", "Aes256Key"})
        => \A i \in 1..Len(store.bytes) : store.bytes[i] = 0

\* C8 witness: an Aes128Key built from FF .. FF was released by unwinding
C8_Witness ==
    /\ store.state = "released"
    /\ store.kind = "Aes128Key"
    /\ store.path = "unwind"
    /\ store.original = KeyPattern(Aes128KeyLen, 1)
    /\ Len(store.bytes) = Aes128KeyLen

\* the mask new_mask returns for the sample as the only call on a key newly
\* built from the algorithm and the key bytes
SoloMask(alg, key_bytes, sample) ==
    LET k == HeaderProtectionKey_new(alg, key_bytes, "none") IN
    cipher_new_mask(k.key.inner, k.store.bytes, sample, TRUE).out

----------------------------------------------------------------------------
(* Claims about the reporting of collaborator failures.                    *)

\* C11: no fallible operation ends in a panic: marshal_public_key,
\* HeaderProtectionKey::from(okm) and new_mask report the failure of a
\* collaborator as a returned error.
C11_NoPanic ==
    /\ (Done("marshal") \/ Done("from")) => call.result.kind # "Panic"
    /\ \A t \in Threads :
           threads[t].pc = "returned" => threads[t].result.kind # "Panic"

----------------------------------------------------------------------------
(* Claims about the bignum helpers of the ec module, checked under SpecEc. *)

\* C12: BIGNUM_to_be_bytes fails exactly when the minimal big-endian
\* encoding of the bignum is longer than the buffer; otherwise it returns
\* the length of that encoding, 0 for the value zero, with the encoding at
\* the start of the buffer.
C12_ToBeBytes ==
    Done("to_be_bytes") =>
        IF Len(call.bignum.v) > Len(call.bytes)
        THEN call.result.kind = "Err"
        ELSE /\ call.result.kind = "Ok"
             /\ call.result.n = Len(call.bignum.v)
             /\ SubSeq(call.result.buffer, 1, call.result.n) = call.bignum.v

\* the frees of the object b in the sequence of frees
Frees(freed, b) == {i \in 1..Len(freed) : freed[i].obj = b}

\* C13: on every path through ECDSA_SIG_from_fixed each bignum created for
\* r and s is released exactly once: by its own wrapper when the function
\* fails, and by the signature object, which alone owns it when the
\* function succeeds, once that object is released.
C13_BignumsReleasedOnce ==
    (call.op = "from_fixed" /\ call.phase \in {"done", "dropped"}) =>
        LET res  == call.result
            made == {res.created[i] : i \in 1..Len(res.created)}
            held == {i \in 1..Len(res.sig_obj.members) : TRUE}
        IN  \A b \in {"r_bn", "s_bn"} :
                IF b \notin made THEN Frees(res.freed, b) = {}
                ELSE IF res.kind = "Err"
                THEN /\ Cardinality(Frees(res.freed, b)) = 1
                     /\ \A i \in Frees(res.freed, b) : res.freed[i].by = "DetachableLcPtr"
                ELSE IF call.phase = "done"
                THEN /\ Frees(res.freed, b) = {}
                     /\ Cardinality({i \in held : res.sig_obj.members[i] = b}) = 1
                ELSE /\ Cardinality(Frees(res.freed, b)) = 1
                     /\ \A i \in Frees(res.freed, b) : res.freed[i].by = "ECDSA_SIG"

\* C13 witness: ECDSA_SIG_set0 failed after both bignums and the signature
\* object were created, and all three were freed
C13_Witness ==
    /\ Done("from_fixed")
    /\ call.fault = "set0"
    /\ call.result.kind = "Err"
    /\ call.result.created = <<"r_bn", "s_bn", "ecdsa_sig">>
    /\ Len(call.result.freed) = 3

====
